---- MODULE Spec2Model ----
(***************************************************************************)
(* Model of goup (src/main.go): an ephemeral file / short-URL store.       *)
(*                                                                         *)
(* Shared state: the two sqlite tables (files, urls), the upload directory *)
(* (blobs), the global math/rand source (rng) and the wall clock.          *)
(* Tasks: one goroutine per HTTP request (uploaders, shorteners, one       *)
(* reader) and the cleanupExpiredData goroutine (the sweeper).  Every      *)
(* action is one access of a task to the shared state, together with the   *)
(* local computation around it.                                            *)
(*                                                                         *)
(* Time is counted in hours.  Strings are sequences of one-character       *)
(* strings.  The 62-letter alphabet is cut down to two letters and the     *)
(* eight draws of generateRandomString to one draw.  The bytes of an       *)
(* upload are opaque: they are named by the request that sent them.        *)
(***************************************************************************)
EXTENDS Integers, Sequences, FiniteSets, TLC

\* ---------------------------------------------------------------- bounds
MaxTicks == 2        \* the clock advances at most this many times
MaxFaults == 1       \* at most this many storage calls fail in a run

\* ------------------------------------------------------- program constants
FileExpiry == 1      \* config.FileExpiry = time.Hour
URLExpiry == 1       \* config.URLExpiry = time.Hour
LongExpiry == 720    \* 30 * 24 * time.Hour
Day == 24            \* 24 * time.Hour

allowedChars == <<"A", "B">>

\* ------------------------------------------------------------ task names
Uploaders == {"u1", "u2"}
Shorteners == {"s1", "s2"}
NoTask == "none"

\* --------------------------------------------------------------- inputs
TickSteps == {1, LongExpiry}
LinkSteps == {29 * Day, 2 * Day}
FileNames == { <<"n", ".", "t">>, <<"n", ".", "\\">> }
Empty == ""          \* a file of no bytes
URLs == { <<>>, <<" ", "\t">>, <<"h">> }
NoId == <<>>

VARIABLES
    clock,    \* time.Now()
    ticks,    \* how often the clock has advanced
    budget,   \* how many more storage calls may fail
    rng,      \* state of the global math/rand source
    files,    \* table files: path -> [filename, expires_at, by]
    urls,     \* table urls: id -> [original_url, expires_at, by]
    blobs,    \* upload directory: name -> [ino, bytes]
    up,       \* handleFileUpload requests
    sh,       \* handleURLShorten requests
    sw,       \* the cleanupExpiredData goroutine
    rd        \* the reading request (handleFileDownload / handleShortURLRedirect)

vars == <<clock, ticks, budget, rng, files, urls, blobs, up, sh, sw, rd>>

\* ------------------------------------------------------ partial functions
Put(f, k, v) == [x \in (DOMAIN f) \cup {k} |-> IF x = k THEN v ELSE f[x]]
Drop(f, S) == [x \in (DOMAIN f) \ S |-> f[x]]
NoRows == [x \in {} |-> 0]

\* ------------------------------------------------------------ pure code
\* filepath.Ext: the suffix starting at the last dot of the last path
\* element ('/' is the only path separator of this build).
RECURSIVE ExtFrom(_, _)
ExtFrom(path, i) ==
    IF i < 1 \/ path[i] = "/" THEN <<>>
    ELSE IF path[i] = "." THEN SubSeq(path, i, Len(path))
    ELSE ExtFrom(path, i - 1)

Ext(path) == ExtFrom(path, Len(path))

\* strings.TrimSpace
IsSpace(c) == c \in {" ", "\t", "\n", "\r"}

RECURSIVE TrimLeft(_)
TrimLeft(s) == IF s # <<>> /\ IsSpace(Head(s)) THEN TrimLeft(Tail(s)) ELSE s

RECURSIVE TrimRight(_)
TrimRight(s) ==
    IF s # <<>> /\ IsSpace(s[Len(s)]) THEN TrimRight(SubSeq(s, 1, Len(s) - 1)) ELSE s

TrimSpace(s) == TrimRight(TrimLeft(s))

\* strings.Contains(s, c) for a one-character c
Contains(s, c) == \E i \in 1..Len(s) : s[i] = c

\* the test of line 104 without its backslash clause
InvalidPathNoBackslash(path) == path = <<>> \/ Contains(path, "/")

\* handleFileDownload's test of the requested path
InvalidPath(path) == path = <<>> \/ Contains(path, "/") \/ Contains(path, "\\")

\* math/rand: Seed sets the state from the clock, every draw advances it.
RngStates == 2 * Len(allowedChars)
SeedOf(now) == now % RngStates
NextRng(s) == (s + 1) % RngStates
Intn(s, n) == NextRng(s) % n

\* time.Time.After
After(now, t) == now > t

\* the TTL chosen by the "long" flag
FileTTL(long) == IF long THEN LongExpiry ELSE FileExpiry
\* lines 226-229 without the test of data.Long
URLTTLDefault(long) == URLExpiry

URLTTL(long) == IF long THEN LongExpiry ELSE URLExpiry

\* ----------------------------------------------------------------- Init
IdleUp == [pc |-> "idle", filename |-> <<>>, long |-> FALSE,
           id |-> NoId, fd |-> NoTask, exp |-> 0, reply |-> "", conc |-> {}]
IdleSh == [pc |-> "idle", url |-> <<>>, long |-> FALSE, id |-> NoId, exp |-> 0,
           reply |-> ""]
IdleSw == [pc |-> "sleep", now |-> 0, todo |-> {}, listed |-> {}]
IdleRd == [pc |-> "idle", id |-> NoId, name |-> <<>>, exp |-> 0, by |-> NoTask,
           url |-> <<>>, at |-> 0, resp |-> "none", bytes |-> Empty, after |-> {},
           disp |-> <<>>, fileCount |-> 0, urlCount |-> 0]

Stores ==
    /\ clock = 0
    /\ ticks = 0
    /\ rng = 0
    /\ files = NoRows
    /\ urls = NoRows
    /\ blobs = NoRows
    /\ up = [u \in Uploaders |-> IdleUp]
    /\ sh = [s \in Shorteners |-> IdleSh]
    /\ sw = IdleSw
    /\ rd = IdleRd

\* the state after main's initDB and MkdirAll
Init == Stores /\ budget = MaxFaults

\* the same, with storage that never fails
InitReliable == Stores /\ budget = 0

\* the state after one upload of "n.t" at clock 0 has been answered
Uploaded == [pc |-> "ok", filename |-> <<"n", ".", "t">>, long |-> FALSE,
             id |-> <<"B", ".", "t">>, fd |-> "u1", exp |-> FileExpiry,
             reply |-> "File uploaded successfully", conc |-> {}]

OneFile ==
    /\ clock = 0
    /\ ticks = 0
    /\ rng = 1
    /\ files = Put(NoRows, Uploaded.id,
                   [filename |-> Uploaded.filename, expires_at |-> Uploaded.exp, by |-> "u1"])
    /\ urls = NoRows
    /\ blobs = Put(NoRows, Uploaded.id, [ino |-> "u1", bytes |-> "u1"])
    /\ up = [u \in Uploaders |-> IF u = "u1" THEN Uploaded ELSE IdleUp]
    /\ sh = [s \in Shorteners |-> IdleSh]
    /\ sw = IdleSw
    /\ rd = IdleRd

InitOneFile == OneFile /\ budget = MaxFaults
InitOneFileReliable == OneFile /\ budget = 0

\* ---------------------------------------------------------------- clock
Tick(steps) ==
    /\ ticks < MaxTicks
    /\ \E d \in steps : clock' = clock + d
    /\ ticks' = ticks + 1
    /\ UNCHANGED <<budget, rng, files, urls, blobs, up, sh, sw, rd>>

\* a storage call may fail while the fault budget lasts
MayFail == budget > 0

\* ------------------------------------------------------ handleFileUpload
InFlight == {"seeded", "named", "created", "copied"}
UpFailed == {"err_create", "err_copy", "err_dup", "err_db"}

\* generateRandomString(8), abstracted to one draw from allowedChars
RandomString(s) == << allowedChars[Intn(s, Len(allowedChars)) + 1] >>

\* lines 152-162 up to rand.Seed: the request's inputs are read and the
\* global source is seeded from the clock.
UpSeed(u, longs) ==
    /\ up[u].pc = "idle"
    /\ \E fn \in FileNames, l \in longs :
         up' = [up EXCEPT ![u].pc = "seeded", ![u].filename = fn, ![u].long = l,
                          ![u].conc = {v \in Uploaders \ {u} : up[v].pc \in InFlight}]
    /\ rng' = SeedOf(clock)
    /\ UNCHANGED <<clock, ticks, budget, files, urls, blobs, sh, sw, rd>>

\* lines 273-277 and 162: the draws, and randomName = token + extension
UpDraw(u) ==
    /\ up[u].pc = "seeded"
    /\ up' = [up EXCEPT ![u].pc = "named",
                        ![u].id = RandomString(rng) \o Ext(up[u].filename)]
    /\ rng' = NextRng(rng)
    /\ UNCHANGED <<clock, ticks, budget, files, urls, blobs, sh, sw, rd>>

\* os.Create: a new file, or the existing file of that name truncated
Created(u, id) ==
    IF id \in DOMAIN blobs
    THEN [blobs EXCEPT ![id].bytes = Empty]
    ELSE Put(blobs, id, [ino |-> u, bytes |-> Empty])

\* lines 167-172
UpCreate(u) ==
    /\ up[u].pc = "named"
    /\ \/ /\ blobs' = Created(u, up[u].id)
          /\ up' = [up EXCEPT ![u].pc = "created", ![u].fd = blobs'[up[u].id].ino]
          /\ UNCHANGED budget
       \/ /\ MayFail
          /\ budget' = budget - 1
          /\ up' = [up EXCEPT ![u].pc = "err_create", ![u].reply = "Could not save file"]
          /\ UNCHANGED blobs
    /\ UNCHANGED <<clock, ticks, rng, files, urls, sh, sw, rd>>

\* io.Copy writes through the open descriptor: the bytes reach the
\* directory entry only while it still names the file that was opened.
Copied(u, id) ==
    IF id \in DOMAIN blobs /\ blobs[id].ino = up[u].fd
    THEN [blobs EXCEPT ![id].bytes = u]
    ELSE blobs

\* the handler without the return of line 179: it replies and goes on
AfterCopyErrorNoReturn(u) ==
    [up EXCEPT ![u].pc = "copied", ![u].reply = "Could not save file"]

\* what follows a failed io.Copy (lines 176-180: the handler returns)
AfterCopyError(u) ==
    [up EXCEPT ![u].pc = "err_copy", ![u].reply = "Could not save file"]

\* lines 175-180
UpCopy(u) ==
    /\ up[u].pc = "created"
    /\ \/ /\ blobs' = Copied(u, up[u].id)
          /\ up' = [up EXCEPT ![u].pc = "copied"]
          /\ UNCHANGED budget
       \/ /\ MayFail
          /\ budget' = budget - 1
          /\ up' = AfterCopyError(u)
          /\ UNCHANGED blobs
    /\ UNCHANGED <<clock, ticks, rng, files, urls, sh, sw, rd>>

\* http.Error / Encode: the first write to the ResponseWriter is the reply
Reply(sent, msg) == IF sent = "" THEN msg ELSE sent

\* lines 182-194: expiresAt from the clock, then the INSERT; the primary
\* key rejects a path that is already in the table.
UpInsert(u) ==
    /\ up[u].pc = "copied"
    /\ LET exp == clock + FileTTL(up[u].long)
           id == up[u].id IN
       \/ /\ id \notin DOMAIN files
          /\ files' = Put(files, id,
                          [filename |-> up[u].filename, expires_at |-> exp, by |-> u])
          /\ up' = [up EXCEPT ![u].pc = "ok", ![u].exp = exp,
                              ![u].reply = Reply(up[u].reply, "File uploaded successfully")]
          /\ UNCHANGED budget
       \/ /\ id \in DOMAIN files
          /\ up' = [up EXCEPT ![u].pc = "err_dup",
                              ![u].reply = Reply(up[u].reply, "Database error")]
          /\ UNCHANGED <<files, budget>>
       \/ /\ MayFail
          /\ budget' = budget - 1
          /\ up' = [up EXCEPT ![u].pc = "err_db",
                              ![u].reply = Reply(up[u].reply, "Database error")]
          /\ UNCHANGED files
    /\ UNCHANGED <<clock, ticks, rng, urls, blobs, sh, sw, rd>>

Upload(u, longs) ==
    UpSeed(u, longs) \/ UpDraw(u) \/ UpCreate(u) \/ UpCopy(u) \/ UpInsert(u)

\* ------------------------------------------------------ handleURLShorten
\* line 221 without the TrimSpace
BlankURLNoTrim(url) == url = <<>>

\* line 221
BlankURL(url) == TrimSpace(url) = <<>>

\* lines 216-225 up to rand.Seed: the body is decoded and validated, then
\* the global source is seeded from the clock.
ShSeed(s, longs) ==
    /\ sh[s].pc = "idle"
    /\ \E url \in URLs, l \in longs :
         IF BlankURL(url)
         THEN /\ sh' = [sh EXCEPT ![s].pc = "err_input", ![s].url = url, ![s].long = l,
                                   ![s].reply = "Invalid input"]
              /\ UNCHANGED rng
         ELSE /\ sh' = [sh EXCEPT ![s].pc = "seeded", ![s].url = url, ![s].long = l]
              /\ rng' = SeedOf(clock)
    /\ UNCHANGED <<clock, ticks, budget, files, urls, blobs, up, sw, rd>>

\* lines 273-277
ShDraw(s) ==
    /\ sh[s].pc = "seeded"
    /\ sh' = [sh EXCEPT ![s].pc = "named", ![s].id = RandomString(rng)]
    /\ rng' = NextRng(rng)
    /\ UNCHANGED <<clock, ticks, budget, files, urls, blobs, up, sw, rd>>

\* lines 226-235
ShInsert(s) ==
    /\ sh[s].pc = "named"
    /\ LET exp == clock + URLTTL(sh[s].long)
           id == sh[s].id IN
       \/ /\ id \notin DOMAIN urls
          /\ urls' = Put(urls, id,
                         [original_url |-> sh[s].url, expires_at |-> exp, by |-> s])
          /\ sh' = [sh EXCEPT ![s].pc = "ok", ![s].exp = exp, ![s].reply = "short_url"]
          /\ UNCHANGED budget
       \/ /\ id \in DOMAIN urls
          /\ sh' = [sh EXCEPT ![s].pc = "err_dup", ![s].reply = "Internal server error"]
          /\ UNCHANGED <<urls, budget>>
       \/ /\ MayFail
          /\ budget' = budget - 1
          /\ sh' = [sh EXCEPT ![s].pc = "err_db", ![s].reply = "Internal server error"]
          /\ UNCHANGED urls
    /\ UNCHANGED <<clock, ticks, rng, files, blobs, up, sw, rd>>

Shorten(s, longs) == ShSeed(s, longs) \/ ShDraw(s) \/ ShInsert(s)

\* --------------------------------------------------- cleanupExpiredData
\* WHERE expires_at <= ?
ExpiredAt(table, now) == {k \in DOMAIN table : table[k].expires_at <= now}

\* lines 85-87: now is captured and the expired paths are selected
SwQuery ==
    /\ sw.pc = "sleep"
    /\ \/ /\ sw' = [pc |-> "remove", now |-> clock,
                    todo |-> ExpiredAt(files, clock), listed |-> ExpiredAt(files, clock)]
          /\ UNCHANGED budget
       \/ /\ MayFail
          /\ budget' = budget - 1
          /\ sw' = [pc |-> "urls", now |-> clock, todo |-> {}, listed |-> {}]
    /\ UNCHANGED <<clock, ticks, rng, files, urls, blobs, up, sh, rd>>

\* the loop of lines 88-92 leaving the batch at the first failed os.Remove
SwRemoveAbort ==
    /\ sw.pc = "remove"
    /\ \E path \in sw.todo :
         \/ /\ sw' = [sw EXCEPT !.todo = sw.todo \ {path}]
            /\ blobs' = Drop(blobs, {path})
            /\ UNCHANGED budget
         \/ /\ MayFail
            /\ path \in DOMAIN blobs
            /\ sw' = [sw EXCEPT !.todo = {}]
            /\ budget' = budget - 1
            /\ UNCHANGED blobs
    /\ UNCHANGED <<clock, ticks, rng, files, urls, up, sh, rd>>

\* lines 88-92: os.Remove of one listed path; its error is dropped
SwRemove ==
    /\ sw.pc = "remove"
    /\ \E path \in sw.todo :
         /\ sw' = [sw EXCEPT !.todo = sw.todo \ {path}]
         /\ \/ /\ blobs' = Drop(blobs, {path})
               /\ UNCHANGED budget
            \/ /\ MayFail
               /\ path \in DOMAIN blobs
               /\ budget' = budget - 1
               /\ UNCHANGED blobs
    /\ UNCHANGED <<clock, ticks, rng, files, urls, up, sh, rd>>

\* lines 93-94: DELETE FROM files WHERE expires_at <= now; error dropped
SwDeleteFiles ==
    /\ sw.pc = "remove"
    /\ sw.todo = {}
    /\ sw' = [sw EXCEPT !.pc = "urls"]
    /\ \/ /\ files' = Drop(files, ExpiredAt(files, sw.now))
          /\ UNCHANGED budget
       \/ /\ MayFail
          /\ budget' = budget - 1
          /\ UNCHANGED files
    /\ UNCHANGED <<clock, ticks, rng, urls, blobs, up, sh, rd>>

\* line 96: DELETE FROM urls WHERE expires_at <= now; error dropped
SwDeleteUrls ==
    /\ sw.pc = "urls"
    /\ sw' = IdleSw
    /\ \/ /\ urls' = Drop(urls, ExpiredAt(urls, sw.now))
          /\ UNCHANGED budget
       \/ /\ MayFail
          /\ budget' = budget - 1
          /\ UNCHANGED urls
    /\ UNCHANGED <<clock, ticks, rng, files, blobs, up, sh, rd>>

Sweeper == SwQuery \/ SwRemove \/ SwDeleteFiles \/ SwDeleteUrls

\* --------------------------------------------------- handleFileDownload
FileIds == {RandomString(s) \o Ext(fn) : s \in 0..(RngStates - 1), fn \in FileNames}
ReadPaths == FileIds \cup { <<>>, <<"A", "/">> }
UrlIds == {RandomString(s) : s \in 0..(RngStates - 1)}

NotFound(id) == [IdleRd EXCEPT !.pc = "done", !.id = id, !.at = clock,
                               !.resp = "NotFound"]

\* lines 101-119: the path is validated, then the row is selected
RdFileLookup ==
    /\ rd.pc \in {"idle", "done"}
    /\ \E path \in ReadPaths :
         rd' = IF InvalidPath(path) \/ path \notin DOMAIN files
               THEN [NotFound(path) EXCEPT
                        !.after = {u \in Uploaders : up[u].pc = "ok" /\ up[u].id = path}]
               ELSE [IdleRd EXCEPT !.pc = "f_looked", !.id = path,
                        !.name = files[path].filename,
                        !.exp = files[path].expires_at,
                        !.by = files[path].by,
                        !.after = {u \in Uploaders : up[u].pc = "ok" /\ up[u].id = path}]
    /\ UNCHANGED <<clock, ticks, budget, rng, files, urls, blobs, up, sh, sw>>

\* lines 121-132 with a handler that deletes the row it finds expired
RdFileStatPurge ==
    /\ rd.pc = "f_looked"
    /\ rd' = IF After(clock, rd.exp) \/ rd.id \notin DOMAIN blobs
             THEN [rd EXCEPT !.pc = "done", !.at = clock, !.resp = "NotFound"]
             ELSE [rd EXCEPT !.pc = "f_stat", !.at = clock]
    /\ files' = IF After(clock, rd.exp) THEN Drop(files, {rd.id}) ELSE files
    /\ UNCHANGED <<clock, ticks, budget, rng, urls, blobs, up, sh, sw>>

\* lines 121-132: the expiry test against the clock, then os.Stat
RdFileStat ==
    /\ rd.pc = "f_looked"
    /\ rd' = IF After(clock, rd.exp) \/ rd.id \notin DOMAIN blobs
             THEN [rd EXCEPT !.pc = "done", !.at = clock, !.resp = "NotFound"]
             ELSE [rd EXCEPT !.pc = "f_stat", !.at = clock]
    /\ UNCHANGED <<clock, ticks, budget, rng, files, urls, blobs, up, sh, sw>>

\* lines 134-143: Content-Disposition is set in the response's header, then
\* http.ServeFile opens the file and sends what it holds, or answers 404
\* through the same ResponseWriter when the file is gone
RdFileServe ==
    /\ rd.pc = "f_stat"
    /\ rd' = IF rd.id \notin DOMAIN blobs
             THEN [rd EXCEPT !.pc = "done", !.resp = "NotFound", !.disp = rd.name]
             ELSE [rd EXCEPT !.pc = "done", !.resp = "OK", !.disp = rd.name,
                             !.bytes = blobs[rd.id].bytes]
    /\ UNCHANGED <<clock, ticks, budget, rng, files, urls, blobs, up, sh, sw>>

\* ----------------------------------------------- handleShortURLRedirect
\* lines 247-250: the row is selected
RdUrlLookup ==
    /\ rd.pc \in {"idle", "done"}
    /\ \E id \in UrlIds :
         rd' = IF id \notin DOMAIN urls
               THEN NotFound(id)
               ELSE [IdleRd EXCEPT !.pc = "u_looked", !.id = id,
                        !.url = urls[id].original_url,
                        !.exp = urls[id].expires_at,
                        !.by = urls[id].by]
    /\ UNCHANGED <<clock, ticks, budget, rng, files, urls, blobs, up, sh, sw>>

\* lines 251-255: the expiry test against the clock
RdUrlCheck ==
    /\ rd.pc = "u_looked"
    /\ rd' = IF After(clock, rd.exp)
             THEN [rd EXCEPT !.pc = "done", !.at = clock, !.resp = "NotFound"]
             ELSE [rd EXCEPT !.pc = "done", !.at = clock, !.resp = "Redirect"]
    /\ UNCHANGED <<clock, ticks, budget, rng, files, urls, blobs, up, sh, sw>>

ResolveFile == RdFileLookup \/ RdFileStat \/ RdFileServe
ResolveURL == RdUrlLookup \/ RdUrlCheck

\* what the handler has written to its ResponseWriter: the status, the
\* Content-Disposition header, the body and the Location of a redirect
Outcome(r) == [resp |-> r.resp, disp |-> r.disp, bytes |-> r.bytes,
               location |-> IF r.resp = "Redirect" THEN r.url ELSE <<>>]

\* http.NotFound on a ResponseWriter nothing was written to
BareNotFound == [resp |-> "NotFound", disp |-> <<>>, bytes |-> Empty,
                 location |-> <<>>]

\* ---------------------------------------------------------- handleStats
\* SELECT COUNT(*) counting only the rows that have not expired
CountLive(table) == Cardinality({k \in DOMAIN table : table[k].expires_at > clock})

\* SELECT COUNT(*) FROM a table
CountRows(table) == Cardinality(DOMAIN table)

\* line 260: the files are counted; Scan's error is dropped and fileCount
\* keeps its zero value when the query fails
RdStatsFiles ==
    /\ rd.pc \in {"idle", "done"}
    /\ \/ /\ rd' = [IdleRd EXCEPT !.pc = "s_files", !.at = clock,
                                   !.fileCount = CountRows(files)]
          /\ UNCHANGED budget
       \/ /\ MayFail
          /\ budget' = budget - 1
          /\ rd' = [IdleRd EXCEPT !.pc = "s_files", !.at = clock]
    /\ UNCHANGED <<clock, ticks, rng, files, urls, blobs, up, sh, sw>>

\* lines 261-268: the urls are counted in a second query, then both counts
\* are written
RdStatsUrls ==
    /\ rd.pc = "s_files"
    /\ \/ /\ rd' = [rd EXCEPT !.pc = "done", !.resp = "Stats",
                               !.urlCount = CountRows(urls)]
          /\ UNCHANGED budget
       \/ /\ MayFail
          /\ budget' = budget - 1
          /\ rd' = [rd EXCEPT !.pc = "done", !.resp = "Stats"]
    /\ UNCHANGED <<clock, ticks, rng, files, urls, blobs, up, sh, sw>>

Stats == RdStatsFiles \/ RdStatsUrls

\* ------------------------------------------------------- specifications
Short == {FALSE}

\* every task, every input
Next ==
    \/ Tick(TickSteps)
    \/ \E u \in Uploaders : Upload(u, BOOLEAN)
    \/ \E s \in Shorteners : Shorten(s, BOOLEAN)
    \/ Sweeper
    \/ ResolveFile
    \/ ResolveURL
    \/ Stats

Spec == Init /\ [][Next]_vars

\* uploads and the sweeper over storage that may fail; default TTL
NextStore ==
    \/ Tick({1})
    \/ \E u \in Uploaders : Upload(u, Short)
    \/ Sweeper

SpecStore == Init /\ [][NextStore]_vars

\* uploads, the sweeper and downloads over storage that does not fail
NextRead ==
    \/ Tick({1})
    \/ \E u \in Uploaders : Upload(u, Short)
    \/ Sweeper
    \/ ResolveFile

SpecRead == InitReliable /\ [][NextRead]_vars

\* uploads and downloads over storage that does not fail, no sweeper
NextPaths ==
    \/ Tick({1})
    \/ \E u \in Uploaders : Upload(u, Short)
    \/ ResolveFile

SpecPaths == InitReliable /\ [][NextPaths]_vars

\* short URLs and the sweeper over storage that may fail, after one upload
NextShorten ==
    \/ Tick({1})
    \/ \E s \in Shorteners : Shorten(s, Short)
    \/ Sweeper

SpecShorten == InitOneFile /\ [][NextShorten]_vars

\* short URLs with both TTLs, the sweeper and redirects over storage that
\* does not fail, after one upload
NextLinks ==
    \/ Tick(LinkSteps)
    \/ \E s \in Shorteners : Shorten(s, BOOLEAN)
    \/ Sweeper
    \/ ResolveURL

SpecLinks == InitOneFileReliable /\ [][NextLinks]_vars

\* short URLs, the sweeper and the three read handlers over storage that
\* does not fail, after one upload; default TTL
NextFrame ==
    \/ Tick({1})
    \/ \E s \in Shorteners : Shorten(s, Short)
    \/ Sweeper
    \/ ResolveFile
    \/ ResolveURL
    \/ Stats

SpecFrame == InitOneFileReliable /\ [][NextFrame]_vars

\* InitOneFile is a state the program reaches: TLC finds a state of
\* SpecStore where this is false.
OneFileReached ==
    ~ (/\ clock = 0 /\ ticks = 0 /\ budget = MaxFaults /\ rng = 1
       /\ urls = NoRows /\ sw = IdleSw /\ rd = IdleRd
       /\ up["u1"] = Uploaded /\ up["u2"] = IdleUp
       /\ DOMAIN files = {Uploaded.id} /\ files[Uploaded.id].by = "u1"
       /\ files[Uploaded.id].expires_at = FileExpiry
       /\ DOMAIN blobs = {Uploaded.id} /\ blobs[Uploaded.id].bytes = "u1")


\* uploads and the sweeper, every task scheduled fairly: each request
\* handler and the sweeper loop are goroutines that keep running
FairStore ==
    /\ SpecStore
    /\ WF_vars(Sweeper)
    /\ \A u \in Uploaders : WF_vars(Upload(u, Short))

\* ----------------------------------------------------------------- claims
Answered(u) == up[u].pc \in {"ok"} \cup UpFailed
Concurrent(p, q) == p \in up[q].conc \/ q \in up[p].conc
RowOf(u) == {i \in DOMAIN files : files[i].by = u}

\* C1: when two concurrent uploads draw the same identifier, exactly one
\* succeeds with it, the other is not failed by the collision (it succeeds
\* under another identifier), and the winner's stored bytes stay the winner's.
C1_CollisionResolved ==
    \A p \in Uploaders : \A q \in Uploaders \ {p} :
        (/\ Concurrent(p, q)
         /\ up[p].pc = "ok"
         /\ Answered(q)
         /\ up[q].id = up[p].id)
        => /\ up[q].pc # "err_dup"
           /\ (up[p].id \in DOMAIN blobs /\ RowOf(p) # {})
                 => blobs[up[p].id].bytes = p

\* C2: a duplicate-key error of the INSERT is never the reply of Upload or
\* Shorten: no request ends failed because its identifier was taken.
C2_DuplicateKeyRecovered ==
    /\ \A u \in Uploaders : up[u].pc # "err_dup"
    /\ \A s \in Shorteners : sh[s].pc # "err_dup"

\* C3: a download of identifier i that starts after an upload was answered
\* with i, and ends before that record's expires_at, returns that upload's
\* bytes and display name.
C3_ReadBack ==
    \A p \in rd.after :
        (rd.pc = "done" /\ clock < up[p].exp)
        => /\ rd.resp = "OK"
           /\ rd.bytes = p
           /\ rd.name = up[p].filename

\* C4: a record is served only when the clock value of the expiry test is
\* before expires_at; at now >= expires_at the answer is NotFound.
C4_ExpiredNotServed ==
    (rd.pc = "done" /\ rd.resp \in {"OK", "Redirect"}) => rd.at < rd.exp

\* C5: once a sweeper iteration is through with the expired file records
\* it listed, neither their rows nor their blobs are in the stores.
C5_SweptGone ==
    sw.pc = "urls" =>
        \A i \in sw.listed : i \notin DOMAIN files /\ i \notin DOMAIN blobs

\* C6: every row of the files table has a blob, except a row the running
\* sweeper iteration has listed and not yet deleted.
C6_RowHasBlob ==
    \A i \in DOMAIN files :
        i \in DOMAIN blobs \/ (sw.pc = "remove" /\ i \in sw.listed)

\* C7: an upload that failed with a storage failure has left nothing in
\* the blob store: no file it created and no bytes it wrote.
C7_FailureLeavesNothing ==
    \A u \in Uploaders :
        up[u].pc \in {"err_create", "err_copy", "err_db"}
        => ~ \E i \in DOMAIN blobs : blobs[i].ino = u \/ blobs[i].bytes = u

\* C8: an upload answered "Could not save file" (os.Create or io.Copy
\* failed) has no row in the files table.
C8_NoRowAfterBlobFailure ==
    \A u \in Uploaders : up[u].reply = "Could not save file" => RowOf(u) = {}

C8_Witness ==
    \E u \in Uploaders : \E v \in Uploaders \ {u} :
        /\ up[u].pc = "err_copy"
        /\ up[u].reply = "Could not save file"
        /\ up[u].id \in DOMAIN blobs
        /\ RowOf(v) # {}

\* C9: Shorten with an empty or all-whitespace URL is answered
\* "Invalid input", draws no identifier and has no row in the urls table.
OnlySpace(url) == \A i \in 1..Len(url) : url[i] \in {" ", "\t", "\n", "\r"}

C9_BlankRejected ==
    \A s \in Shorteners :
        (sh[s].pc # "idle" /\ OnlySpace(sh[s].url))
        => /\ sh[s].reply = "Invalid input"
           /\ sh[s].id = NoId
           /\ ~ \E i \in DOMAIN urls : urls[i].by = s

C9_Witness ==
    \E s \in Shorteners : \E t \in Shorteners \ {s} :
        /\ sh[s].pc = "err_input"
        /\ sh[s].url = <<" ", "\t">>
        /\ sh[t].pc = "ok"

\* C10: under fair scheduling, every expired file record is eventually
\* reclaimed: its row is gone and the bytes it stored are gone.
C10_EventuallyReclaimed ==
    \A i \in FileIds : \A p \in Uploaders :
        (i \in DOMAIN files /\ files[i].by = p /\ files[i].expires_at <= clock)
        ~> (/\ ~ (i \in DOMAIN files /\ files[i].by = p)
            /\ ~ (i \in DOMAIN blobs /\ blobs[i].bytes = p))


\* C11: a sweeper iteration goes: list the expired paths, remove each
\* listed blob, bulk-delete the expired file rows, bulk-delete the expired
\* URL rows.  A failed removal or a failed DELETE does not stop the steps
\* after it.  skip: whether a failed listing may pass over the blob
\* removals and the file-row DELETE.
SweepStep(skip) ==
    /\ (sw.pc = "sleep" /\ sw' # sw)
       => \/ /\ sw'.pc = "remove"
             /\ sw'.todo = ExpiredAt(files, clock)
             /\ sw'.listed = sw'.todo
          \/ /\ skip
             /\ budget' < budget
             /\ sw'.pc = "urls"
    /\ (sw.pc = "remove" /\ sw' # sw /\ sw.todo # {})
       => /\ sw'.pc = "remove"
          /\ \E path \in sw.todo :
               /\ sw'.todo = sw.todo \ {path}
               /\ path \notin DOMAIN blobs' \/ budget' < budget
    /\ (sw.pc = "remove" /\ sw' # sw /\ sw.todo = {})
       => /\ sw'.pc = "urls"
          /\ files' = Drop(files, ExpiredAt(files, sw.now)) \/ budget' < budget
    /\ (sw.pc = "urls" /\ sw' # sw)
       => /\ sw'.pc = "sleep"
          /\ urls' = Drop(urls, ExpiredAt(urls, sw.now)) \/ budget' < budget

BadPath(id) == id = <<>> \/ \E k \in 1..Len(id) : id[k] \in {"/", "\\"}

C13_BadPathRefused ==
    /\ rd.pc \in {"f_looked", "f_stat"} => ~ BadPath(rd.id)
    /\ (rd.pc = "done" /\ rd.resp \in {"OK", "NotFound"} /\ BadPath(rd.id))
       => /\ rd.resp = "NotFound"
          /\ rd.by = NoTask
          /\ rd.bytes = Empty

C13_Witness ==
    /\ rd.pc = "done"
    /\ rd.resp = "NotFound"
    /\ rd.id = <<"B", ".", "\\">>
    /\ rd.id \in DOMAIN files
    /\ rd.id \in DOMAIN blobs


\* C17: every identifier under which an upload writes a blob or inserts a
\* row is non-empty and passes the download handler's path test, whatever
\* the client's filename.
C17_IssuedIdsValid ==
    /\ \A i \in DOMAIN blobs \cup DOMAIN files : ~ InvalidPath(i)
    /\ \A u \in Uploaders : up[u].pc \in {"named", "created", "copied", "ok"}
                              => ~ InvalidPath(up[u].id)


\* C18: the generator is seeded once per process and not by a generate
\* call: once a first call has seeded it, the step that starts a later call
\* leaves the generator's state as the earlier draws left it, so a token is
\* not fixed by the clock of its call.
C18_SeededOnce ==
    [][\A u \in Uploaders :
         (/\ up[u].pc = "idle" /\ up'[u].pc = "seeded"
          /\ \E v \in Uploaders \ {u} : up[v].pc \notin {"idle", "seeded"})
         => rng' = rng]_vars


\* C19: the sweeper never reclaims the content of a live record: a row
\* whose expires_at is later than the clock is in the table with its blob
\* in the blob store, whatever uploads run beside the sweeper.
C19_LiveContentKept ==
    \A i \in DOMAIN files :
        files[i].expires_at > clock => i \in DOMAIN blobs


\* C20: the rows a sweeper iteration's bulk delete removes from the files
\* table are exactly the identifiers the iteration listed and tried to
\* remove as blobs, also when uploads inserted rows after the listing.
C20_Lockstep ==
    [][(sw.pc = "remove" /\ sw'.pc = "urls")
        => (DOMAIN files) \ (DOMAIN files') = sw.listed]_vars


\* C12: a step of ResolveFile, ResolveURL or Stats leaves the files table,
\* the urls table and the blob store as they were, also the step that
\* finds the record expired or the blob missing.
C12_ReadsChangeNothing ==
    [][rd' # rd => (files' = files /\ urls' = urls /\ blobs' = blobs)]_vars

C12_Witness ==
    /\ rd.pc = "done"
    /\ rd.resp = "NotFound"
    /\ After(rd.at, rd.exp)
    /\ rd.id \in DOMAIN files
    /\ files[rd.id].expires_at = rd.exp
    /\ rd.id \in DOMAIN blobs

\* C15: each count Stats returns is the number of rows in its table at
\* the moment of its query, expired rows included; while no row of a
\* successful Upload or Shorten has been deleted the counts are the numbers
\* of successful Uploads and Shortens.
UploadsKept == \A u \in Uploaders : up[u].pc = "ok" => RowOf(u) # {}
ShortensKept ==
    \A s \in Shorteners : sh[s].pc = "ok" => \E i \in DOMAIN urls : urls[i].by = s

StatsStep ==
    /\ (rd' # rd /\ rd'.pc = "s_files")
       => /\ rd'.fileCount = Cardinality(DOMAIN files)
          /\ UploadsKept
             => rd'.fileCount = Cardinality({u \in Uploaders : up[u].pc = "ok"})
    /\ (rd' # rd /\ rd.pc = "s_files")
       => /\ rd'.resp = "Stats"
          /\ rd'.fileCount = rd.fileCount
          /\ rd'.urlCount = Cardinality(DOMAIN urls)
          /\ ShortensKept
             => rd'.urlCount = Cardinality({s \in Shorteners : sh[s].pc = "ok"})

C15_StatsCountsRows == [][StatsStep]_vars

C15_Witness ==
    /\ rd.pc = "done"
    /\ rd.resp = "Stats"
    /\ rd.at = clock
    /\ rd.fileCount = 1
    /\ rd.urlCount = 2
    /\ \A i \in DOMAIN files : files[i].expires_at <= clock
    /\ \A i \in DOMAIN urls : urls[i].expires_at <= clock
    /\ Cardinality(DOMAIN files) = 1
    /\ Cardinality(DOMAIN urls) = 2

\* C16: every NotFound of ResolveFile and ResolveURL is the same response,
\* whatever its cause: it carries nothing of the record, so it does not
\* tell whether the identifier was ever issued.
C16_SameNotFound ==
    (rd.pc = "done" /\ rd.resp = "NotFound") => Outcome(rd) = BareNotFound


\* C14: a short URL created with the long flag at time t expires at
\* t + 30 days, one created without it at t + the default TTL; up to
\* t + 29 days a redirect request for the long one finds the row and
\* answers with the stored URL, and from t + 31 days on it answers
\* NotFound, whatever the sweeper has done in between.
LinkStep ==
    \A s \in Shorteners :
        /\ (sh[s].pc = "named" /\ sh'[s].pc = "ok")
           => /\ sh[s].id \in DOMAIN urls'
              /\ urls'[sh[s].id].original_url = sh[s].url
              /\ urls'[sh[s].id].expires_at =
                     clock + (IF sh[s].long THEN 30 * Day ELSE URLExpiry)
        /\ (sh[s].pc = "ok" /\ sh[s].long /\ rd' # rd)
           => /\ (rd.pc \in {"idle", "done"} /\ rd'.id = sh[s].id
                    /\ clock <= sh[s].exp - Day)
                 => /\ rd'.pc = "u_looked"
                    /\ rd'.by = s
                    /\ rd'.url = sh[s].url
                    /\ rd'.exp = sh[s].exp
              /\ (rd.pc = "u_looked" /\ rd.by = s /\ clock <= sh[s].exp - Day)
                 => /\ rd'.resp = "Redirect"
                    /\ rd'.url = sh[s].url
              /\ (rd.pc = "u_looked" /\ rd.by = s /\ clock >= sh[s].exp + Day)
                 => rd'.resp = "NotFound"
              /\ (rd.pc \in {"idle", "done"} /\ rd'.id = sh[s].id
                    /\ clock >= sh[s].exp + Day /\ rd'.pc = "done")
                 => rd'.resp = "NotFound"

C14_LongLink == [][LinkStep]_vars

C14_Witness ==
    /\ rd.pc = "done"
    /\ rd.resp = "Redirect"
    /\ rd.by \in Shorteners
    /\ sh[rd.by].long
    /\ rd.at = sh[rd.by].exp - Day
    /\ rd.exp = rd.at + Day
    /\ DOMAIN files = {}

====
